---- MODULE Spec2Model ----
(***************************************************************************)
(* Trivia API service (backend/flaskr/__init__.py): the question store,    *)
(* the pagination helper and the request handlers, as a state machine.     *)
(* One action per HTTP handler; each action runs the whole handler and     *)
(* leaves the request it served in `request` and its answer in `response`. *)
(***************************************************************************)
EXTENDS Integers, Sequences, FiniteSets, TLC

VARIABLES
    store,       \* rows of the Question table
    categories,  \* rows of the Category table (never written by the service)
    nextId,      \* the store's id sequence for the Question table
    request,     \* the request served last
    response,    \* the answer to it
    everIds,     \* history: every id a stored question ever had
    createdIds,  \* history: every id a create answered with
    deletedIds,  \* history: every id a delete removed
    sessPrev,    \* quiz client: the previous_questions list it resends
    sessCalls,   \* quiz client: quiz calls made so far
    sessCat      \* quiz client: the quiz_category id it plays

vars == <<store, categories, nextId, request, response, everIds, createdIds,
          deletedIds, sessPrev, sessCalls, sessCat>>

----------------------------------------------------------------------------
(* Bounds of the model *)

\* questions seeded in the store before the service starts (Spec)
MaxSeed == 3
\* questions seeded in the store in the pagination specification (SpecPag)
MaxRows == 22
\* questions seeded in the store in the quiz specification (SpecQuiz)
MaxPool == 4
\* successful creates in one behaviour
MaxCreates == 2
\* longest previous_questions list of a quiz request
MaxPrev == 2
\* longest search term
MaxTerm == 2
\* quiz calls of one client session
MaxCalls == 6

\* page size, QUESTIONS_PER_PAGE
QUESTIONS_PER_PAGE == 10

----------------------------------------------------------------------------
(* Texts are sequences of characters *)

Chars == {"a", "A", "b", "_"}

Lower(c) == IF c = "A" THEN "a" ELSE c

Min(a, b) == IF a < b THEN a ELSE b
Max(a, b) == IF a > b THEN a ELSE b

\* all sequences over S of length at most n
SeqUpTo(S, n) == UNION {[1..k -> S] : k \in 0..n}

----------------------------------------------------------------------------
(* The store: models.Question / models.Category *)

\* Category rows seeded externally: ids 1 and 2
SeedCategories == {[id |-> 1, type |-> "Science"], [id |-> 2, type |-> "Art"]}

SeedTexts == << <<"a", "b">>, <<"A">>, <<"b", "_">>, <<"b">> >>

\* The i-th seeded question.  category 3 references no Category row: the
\* reference is soft.
SeedRow(i) ==
    [id         |-> i,
     question   |-> SeedTexts[((i - 1) % Len(SeedTexts)) + 1],
     answer     |-> "x",
     category   |-> ((i - 1) % 3) + 1,
     difficulty |-> (i % 2) + 1]

SeedStore(n) == {SeedRow(i) : i \in 1..n}

Ids(rows) == {q.id : q \in rows}

\* Question.format()
Format(q) ==
    [id |-> q.id, question |-> q.question, answer |-> q.answer,
     category |-> q.category, difficulty |-> q.difficulty]

\* Category.format()
FormatCategory(c) == [id |-> c.id, type |-> c.type]

\* keys of an ORDER BY: pairs of integers, compared lexicographically
KeyLess(k, l) == k[1] < l[1] \/ (k[1] = l[1] /\ k[2] < l[2])

\* rows as a list in ascending order of key, a function from the rows to
\* pairwise different keys
RECURSIVE SortRows(_, _)
SortRows(rows, key) ==
    IF rows = {} THEN <<>>
    ELSE LET first == CHOOSE q \in rows :
                          \A r \in rows \ {q} : KeyLess(key[q], key[r])
         IN  <<first>> \o SortRows(rows \ {first}, key)

\* Question.query[.filter(...)].all(): no ORDER BY; rows come back in the
\* order of their insertion, which is the order of their ids
QueryAll(rows) == SortRows(rows, [q \in rows |-> <<q.id, q.id>>])
\* .order_by(Question.id)
OrderById(rows) == SortRows(rows, [q \in rows |-> <<q.id, q.id>>])
\* .order_by(Question.category, Question.id)
OrderByCategoryId(rows) == SortRows(rows, [q \in rows |-> <<q.category, q.id>>])
\* .order_by(Question.difficulty): ties come back in id order
OrderByDifficulty(rows) == SortRows(rows, [q \in rows |-> <<q.difficulty, q.id>>])

MapFormat(rowSeq) == [i \in 1..Len(rowSeq) |-> Format(rowSeq[i])]

----------------------------------------------------------------------------
(* pagination(request, selection) *)

\* Python's list slice s[start:end] with step 1, negative indices included
PySlice(s, start, end) ==
    LET n  == Len(s)
        lo == IF start < 0 THEN Max(n + start, 0) ELSE Min(start, n)
        hi == IF end < 0 THEN Max(n + end, 0) ELSE Min(end, n)
    IN  IF lo >= hi THEN <<>> ELSE SubSeq(s, lo + 1, hi)

\* The page argument of a query string: <<>> when absent (or not an integer),
\* <<n>> when it is the integer n
NoPage == <<>>

\* request.args.get('page', 1, type=int)
PageArg(p) == IF p = NoPage THEN 1 ELSE p[1]

\* pagination with the page taken as 0-based
pagination_zero_based(page, selection) ==
    LET start == PageArg(page) * QUESTIONS_PER_PAGE
        end   == start + QUESTIONS_PER_PAGE
    IN  PySlice(MapFormat(selection), start, end)

pagination(page, selection) ==
    LET start     == (PageArg(page) - 1) * QUESTIONS_PER_PAGE
        end       == start + QUESTIONS_PER_PAGE
        questions == MapFormat(selection)
    IN  PySlice(questions, start, end)

----------------------------------------------------------------------------
(* Requests and responses *)

\* the JSON body of a create request
Body(question, answer, category, difficulty) ==
    [question |-> question, answer |-> answer, category |-> category,
     difficulty |-> difficulty]

\* A request.  shape tells what the JSON body holds: "nobody" (no body),
\* "noprev" / "nocat" / "nocatid" (a quiz body without previous_questions,
\* without quiz_category, without quiz_category.id: the key is missing or
\* quiz_category is no object), "full" (every field).
\* fault: the store raises on the write this request asks for.
NoRequest ==
    [op |-> "none", page |-> NoPage, id |-> 0, shape |-> "full",
     body |-> Body(<<>>, "", 0, 0), term |-> <<>>, prev |-> <<>>, cat |-> 0,
     fault |-> FALSE, client |-> FALSE]

\* A response: the status and the keys of the JSON answer.  A key the answer
\* does not carry keeps its value in NoResponse.
NoResponse ==
    [status |-> 0, success |-> "absent", message |-> "", error |-> 0,
     questions |-> <<>>, total_questions |-> -1, deleted |-> -1,
     created |-> -1, question |-> <<>>, current_category |-> <<>>,
     category_type |-> "", categories |-> {}]

\* bad_req, not_fond, unprocessable, server_error: what abort(code) answers
bad_req ==
    [NoResponse EXCEPT !.status = 400, !.success = "false",
                       !.message = "Bad request", !.error = 400]
not_fond ==
    [NoResponse EXCEPT !.status = 404, !.success = "false",
                       !.message = "Resource not found", !.error = 404]
unprocessable ==
    [NoResponse EXCEPT !.status = 422, !.success = "false",
                       !.message = "Unprocessable", !.error = 422]
server_error ==
    [NoResponse EXCEPT !.status = 500, !.success = "false",
                       !.message = "Internal server error", !.error = 500]

----------------------------------------------------------------------------
(* Text search: Question.question.ilike(f'%{search_term}%') *)

\* SQL's ILIKE: in the pattern "%" stands for any run of characters and "_"
\* for any single character; every other character matches itself, case
\* ignored
RECURSIVE ILike(_, _)
ILike(text, pattern) ==
    IF pattern = <<>> THEN text = <<>>
    ELSE IF Head(pattern) = "%"
         THEN \/ ILike(text, Tail(pattern))
              \/ text # <<>> /\ ILike(Tail(text), pattern)
         ELSE /\ text # <<>>
              /\ \/ Head(pattern) = "_"
                 \/ Lower(Head(text)) = Lower(Head(pattern))
              /\ ILike(Tail(text), Tail(pattern))

\* the rows the search query selects
SearchRows(rows, search_term) ==
    {q \in rows : ILike(q.question, <<"%">> \o search_term \o <<"%">>)}

----------------------------------------------------------------------------
(* Quiz: the previous-questions filter *)

Range(s) == {s[i] : i \in 1..Len(s)}

\* del questions[i], i counted from 0
DelAt(questions, i) ==
    SubSeq(questions, 1, i) \o SubSeq(questions, i + 2, Len(questions))

\* QuizFilter without the i-=1 after a del: the element that moves into place
\* i is skipped
RECURSIVE QuizFilter_skipping(_, _, _)
QuizFilter_skipping(questions, previous_questions, i) ==
    IF ~(i < Len(questions)) THEN questions
    ELSE IF questions[i + 1].id \in Range(previous_questions)
         THEN QuizFilter_skipping(DelAt(questions, i), previous_questions, i + 1)
         ELSE QuizFilter_skipping(questions, previous_questions, i + 1)

\* the while loop of quiz, entered with index i (counted from 0)
RECURSIVE QuizFilter(_, _, _)
QuizFilter(questions, previous_questions, i) ==
    IF ~(i < Len(questions)) THEN questions
    ELSE IF questions[i + 1].id \in Range(previous_questions)
         THEN QuizFilter(DelAt(questions, i), previous_questions, (i - 1) + 1)
         ELSE QuizFilter(questions, previous_questions, i + 1)

\* Category.query.filter_by(id=quiz_category_id).first(), then the pool
QuizPool(rows, cats, quiz_category_id) ==
    LET category == {c \in cats : c.id = quiz_category_id}
    IN  IF category # {}
        THEN QueryAll({q \in rows : \E c \in category : q.category = c.id})
        ELSE QueryAll(rows)

\* QuizBodyRaises with quiz_category's id read by .get("id")
QuizBodyRaises_get_id(req) == req.shape \in {"nobody", "noprev", "nocat"}

\* the try block of quiz raises: no JSON body, or a key is missing
QuizBodyRaises(req) == req.shape \in {"nobody", "noprev", "nocat", "nocatid"}

\* QuizRemaining that drops only the question asked last
QuizRemaining_last_only(rows, cats, req) ==
    LET pool == QuizPool(rows, cats, req.cat)
    IN  IF req.prev = <<>> THEN pool
        ELSE QuizFilter(pool, <<req.prev[Len(req.prev)]>>, 0)

\* the questions quiz may pick from
QuizRemaining(rows, cats, req) ==
    QuizFilter(QuizPool(rows, cats, req.cat), req.prev, 0)

\* quiz's answer when random.randint returns r
QuizAnswer(rows, cats, req, r) ==
    IF QuizBodyRaises(req) THEN bad_req
    ELSE LET questions == QuizRemaining(rows, cats, req)
             random_question ==
                 IF Len(questions) = 0 THEN <<>>
                 ELSE <<Format(questions[r + 1])>>
         IN  [NoResponse EXCEPT !.status = 200, !.success = "true",
                                !.question = random_question]

\* what random.randint(0, len(questions)-1) may return (0 when quiz does not
\* call it)
QuizRandoms(rows, cats, req) ==
    IF QuizBodyRaises(req) THEN {0}
    ELSE LET n == Len(QuizRemaining(rows, cats, req))
         IN  IF n = 0 THEN {0} ELSE 0..(n - 1)

----------------------------------------------------------------------------
(* The other handlers' answers *)

\* the concatenation of a list of lists
RECURSIVE Flatten(_)
Flatten(lists) ==
    IF lists = <<>> THEN <<>> ELSE Head(lists) \o Flatten(Tail(lists))

\* Category.query.filter(Category.id == id).all(), formatted
QueryCategories(cats, id) ==
    LET found == {c \in cats : c.id = id}
    IN  IF found = {} THEN <<>>
        ELSE <<FormatCategory(CHOOSE c \in found : TRUE)>>

\* {category.id: category.type for category in categories}
FormattedCategories(cats) == {<<c.id, c.type>> : c \in cats}

get_questions_answer(rows, cats, req) ==
    LET selection         == OrderByCategoryId(rows)
        current_questions == pagination(req.page, selection)
    IN  IF Len(current_questions) = 0 THEN not_fond
        ELSE [NoResponse EXCEPT !.status = 200, !.success = "true",
                                !.questions = current_questions,
                                !.total_questions = Cardinality(rows),
                                !.categories = FormattedCategories(cats)]

\* delete_rows with the delete never committed
delete_rows_uncommitted(rows, req) == rows

\* the rows left by delete_question: question.delete() when the row is found
\* and the store does not raise
delete_rows(rows, req) ==
    IF req.fault THEN rows ELSE {q \in rows : q.id # req.id}

\* delete_question's answer.  abort(404) is raised inside the try block, the
\* bare except catches it and aborts with 422.
delete_answer(rows, req) ==
    LET question == {q \in rows : q.id = req.id}
        left     == delete_rows(rows, req)
    IN  IF question = {} THEN unprocessable
        ELSE IF req.fault THEN unprocessable
        ELSE [NoResponse EXCEPT !.status = 200, !.success = "true",
                                !.deleted = req.id,
                                !.question = pagination(req.page, OrderById(left)),
                                !.total_questions = Cardinality(left)]

\* create_question runs to the insert and the store takes the row
create_inserts(req) == req.shape # "nobody" /\ ~req.fault

\* the row Question(...).insert() stores, with the id the store assigns
create_row(req, id) ==
    [id |-> id, question |-> req.body.question, answer |-> req.body.answer,
     category |-> req.body.category, difficulty |-> req.body.difficulty]

create_rows(rows, req, id) ==
    IF create_inserts(req) THEN rows \cup {create_row(req, id)} ELSE rows

\* create_answer with the number of questions answered as the created id
create_answer_count(rows, req, id) ==
    LET now == create_rows(rows, req, id)
    IN  IF ~create_inserts(req) THEN server_error
        ELSE [NoResponse EXCEPT !.status = 200, !.success = "true",
                                !.created = Cardinality(now),
                                !.questions = pagination(req.page, OrderByDifficulty(now)),
                                !.total_questions = Cardinality(now)]

\* create_question's answer.  body.get on a missing body raises outside the
\* try block (500); a raise of the store is caught and aborts with 500.
create_answer(rows, req, id) ==
    LET now == create_rows(rows, req, id)
    IN  IF ~create_inserts(req) THEN server_error
        ELSE [NoResponse EXCEPT !.status = 200, !.success = "true",
                                !.created = id,
                                !.questions = pagination(req.page, OrderByDifficulty(now)),
                                !.total_questions = Cardinality(now)]

\* search_questions' answer.  Every raise, abort(404) included, ends in the
\* except clause's abort(404).
search_answer(rows, cats, req) ==
    IF req.shape = "nobody" THEN not_fond
    ELSE LET result              == QueryAll(SearchRows(rows, req.term))
             formatted_questions == MapFormat(result)
             current_questions   == pagination(req.page, result)
             found(i) == QueryCategories(cats, current_questions[i].category)
             category == Flatten([i \in 1..Len(current_questions) |-> found(i)])
         IN  IF Len(result) = 0 THEN not_fond
             ELSE [NoResponse EXCEPT !.status = 200, !.success = "true",
                                     !.questions = formatted_questions,
                                     !.total_questions = Len(formatted_questions),
                                     !.current_category = category]

\* get_questions_by_category's answer (it carries no success key)
by_category_answer(rows, cats, req) ==
    LET selection         == QueryAll({q \in rows : q.category = req.id})
        current_questions == pagination(req.page, selection)
        category          == {c \in cats : c.id = req.id}
    IN  IF category = {} THEN not_fond
        ELSE [NoResponse EXCEPT !.status = 200,
                                !.questions = current_questions,
                                !.total_questions = Cardinality(rows),
                                !.category_type = (CHOOSE c \in category : TRUE).type]

----------------------------------------------------------------------------
(* Inputs *)

PageArgs(numbers) == {NoPage} \cup {<<n>> : n \in numbers}

\* page arguments of Spec and of SpecPag
Pages == PageArgs({0, 2})
PagPages == PageArgs((0 - 3)..4)

\* question ids a request may name: stored ones and others
RequestIds == 0..(MaxSeed + MaxCreates + 1)

\* category ids a request may name: 1 and 2 are categories, 0 and 3 are not
RequestCategories == 0..3

\* previous_questions lists
PrevIds == 1..3
PrevLists == SeqUpTo(PrevIds, MaxPrev)

SearchTerms == SeqUpTo(Chars, MaxTerm)

\* bodies of create requests: all fields populated (with a category that is
\* no Category row), an empty question text (test_add_question), an empty
\* answer (test_422_cannot_create_question)
CreateBodies ==
    {Body(<<"A", "b">>, "x", 3, 2), Body(<<>>, "x", 1, 1),
     Body(<<"b">>, "", 1, 1)}

QuizShapes == {"nobody", "noprev", "nocat", "nocatid", "full"}

----------------------------------------------------------------------------
(* Initial states *)

InitWith(n) ==
    /\ store = SeedStore(n)
    /\ categories = SeedCategories
    /\ nextId = n + 1
    /\ request = NoRequest
    /\ response = NoResponse
    /\ everIds = Ids(SeedStore(n))
    /\ createdIds = {}
    /\ deletedIds = {}
    /\ sessPrev = <<>>
    /\ sessCalls = 0

Init == \E n \in 0..MaxSeed : InitWith(n) /\ sessCat = 0

InitPag == \E n \in 0..MaxRows : InitWith(n) /\ sessCat = 0

InitQuiz == \E n \in 0..MaxPool : InitWith(n) /\ sessCat \in RequestCategories

----------------------------------------------------------------------------
(* Actions: one per handler.  A handler runs when no response is pending. *)

Idle == request.op = "none"

session == <<sessPrev, sessCalls, sessCat>>
history == <<everIds, createdIds, deletedIds>>

\* GET /questions
get_questions(pages) ==
    /\ Idle
    /\ \E page \in pages :
         LET req == [NoRequest EXCEPT !.op = "get_questions", !.page = page]
         IN  /\ request' = req
             /\ response' = get_questions_answer(store, categories, req)
    /\ UNCHANGED <<store, categories, nextId, history, session>>

\* DELETE /questions/<question_id>
delete_question ==
    /\ Idle
    /\ \E id \in RequestIds, page \in Pages, fault \in BOOLEAN :
         LET req == [NoRequest EXCEPT !.op = "delete_question", !.id = id,
                                      !.page = page, !.fault = fault]
         IN  /\ request' = req
             /\ response' = delete_answer(store, req)
             /\ store' = IF id \in Ids(store) THEN delete_rows(store, req)
                         ELSE store
    /\ deletedIds' = deletedIds \cup (Ids(store) \ Ids(store'))
    /\ UNCHANGED <<categories, nextId, everIds, createdIds, session>>

\* POST /questions
create_question ==
    /\ Idle
    /\ Cardinality(createdIds) < MaxCreates
    /\ \E shape \in {"nobody", "full"}, fault \in BOOLEAN, page \in Pages :
       \E body \in IF shape = "full" THEN CreateBodies ELSE {NoRequest.body} :
         LET req == [NoRequest EXCEPT !.op = "create_question", !.shape = shape,
                                      !.body = body, !.page = page,
                                      !.fault = fault]
         IN  /\ request' = req
             /\ response' = create_answer(store, req, nextId)
             /\ store' = create_rows(store, req, nextId)
             /\ nextId' = IF create_inserts(req) THEN nextId + 1 ELSE nextId
    /\ everIds' = everIds \cup Ids(store')
    /\ createdIds' = IF response'.status = 200
                     THEN createdIds \cup {response'.created} ELSE createdIds
    /\ UNCHANGED <<categories, deletedIds, session>>

\* POST /search
search_questions ==
    /\ Idle
    /\ \E shape \in {"nobody", "full"}, page \in Pages :
       \E term \in IF shape = "full" THEN SearchTerms ELSE {<<>>} :
         LET req == [NoRequest EXCEPT !.op = "search_questions", !.shape = shape,
                                      !.term = term, !.page = page]
         IN  /\ request' = req
             /\ response' = search_answer(store, categories, req)
    /\ UNCHANGED <<store, categories, nextId, history, session>>

\* GET /categories/<category_id>/questions
get_questions_by_category ==
    /\ Idle
    /\ \E id \in RequestCategories, page \in Pages :
         LET req == [NoRequest EXCEPT !.op = "get_questions_by_category",
                                      !.id = id, !.page = page]
         IN  /\ request' = req
             /\ response' = by_category_answer(store, categories, req)
    /\ UNCHANGED <<store, categories, nextId, history, session>>

\* POST /quizzes
quiz ==
    /\ Idle
    /\ \E shape \in QuizShapes :
       \E prev \in IF shape = "full" THEN PrevLists ELSE {<<>>} :
       \E cat \in IF shape = "full" THEN RequestCategories ELSE {0} :
         LET req == [NoRequest EXCEPT !.op = "quiz", !.shape = shape,
                                      !.prev = prev, !.cat = cat]
         IN  /\ request' = req
             /\ \E r \in QuizRandoms(store, categories, req) :
                  response' = QuizAnswer(store, categories, req, r)
    /\ UNCHANGED <<store, categories, nextId, history, session>>

\* A quiz client: it sends the ids it was given so far as previous_questions
\* and appends the id of the question it receives.
client_quiz ==
    /\ Idle
    /\ sessCalls < MaxCalls
    /\ LET req == [NoRequest EXCEPT !.op = "quiz", !.prev = sessPrev,
                                    !.cat = sessCat, !.client = TRUE]
       IN  /\ request' = req
           /\ \E r \in QuizRandoms(store, categories, req) :
                response' = QuizAnswer(store, categories, req, r)
    /\ sessCalls' = sessCalls + 1
    /\ sessPrev' = IF response'.question = <<>> THEN sessPrev
                   ELSE Append(sessPrev, response'.question[1].id)
    /\ UNCHANGED <<store, categories, nextId, history, sessCat>>

\* after_request: the headers are added and the response leaves the service
after_request ==
    /\ ~Idle
    /\ request' = NoRequest
    /\ response' = NoResponse
    /\ UNCHANGED <<store, categories, nextId, history, session>>

----------------------------------------------------------------------------
(* Specifications *)

Next ==
    \/ get_questions(Pages)
    \/ delete_question
    \/ create_question
    \/ search_questions
    \/ get_questions_by_category
    \/ quiz
    \/ after_request

Spec == Init /\ [][Next]_vars

\* the pagination helper on stores of several pages
NextPag == get_questions(PagPages) \/ after_request

SpecPag == InitPag /\ [][NextPag]_vars

\* quiz requests and a quiz client on a store nobody writes
NextQuiz == quiz \/ client_quiz \/ after_request

SpecQuiz == InitQuiz /\ [][NextQuiz]_vars

----------------------------------------------------------------------------
(* Properties *)

\* a handler has just answered the request `op`
Answered(op) == request.op = op

\* the step is the handling of a request `op`
Handles(op) == Idle /\ request'.op = op

\* C1: a delete of an id that no stored question has answers 404 with
\* success false, and leaves the stored questions as they are.
C1_DeleteMissingIs404 ==
    [][(Handles("delete_question") /\ request'.id \notin Ids(store))
          => /\ response'.status = 404
             /\ response'.success = "false"
             /\ store' = store]_vars

\* the question ids a response shows: in its lists, as its quiz question and
\* as the id it created
ResponseIds(resp) ==
    {resp.questions[i].id : i \in 1..Len(resp.questions)}
        \cup {resp.question[i].id : i \in 1..Len(resp.question)}
        \cup (IF resp.created >= 0 THEN {resp.created} ELSE {})

C2_DeleteStep ==
    (Handles("delete_question") /\ request'.id \in Ids(store) /\ ~request'.fault)
        => /\ response'.status = 200
           /\ response'.success = "true"
           /\ response'.deleted = request'.id
           /\ response'.total_questions = Cardinality(store) - 1
           /\ store' = {q \in store : q.id # request'.id}
           /\ store \ store' \in {{q} : q \in store}

C2_NeverAgain == ResponseIds(response) \cap deletedIds = {}

ResolvedPool(cat) ==
    IF \E c \in categories : c.id = cat
    THEN {q \in store : q.category = cat}
    ELSE store

\* C3: the question a quiz returns has an id that is not in
\* previous_questions and is a question of the resolved pool.
C3_QuizQuestionIsFresh ==
    (Answered("quiz") /\ response.status = 200 /\ response.question # <<>>)
        => /\ response.question[1].id \notin Range(request.prev)
           /\ \E q \in ResolvedPool(request.cat) : response.question[1] = Format(q)

\* a quiz returned a question although previous_questions named two stored
\* questions with consecutive ids, in a category's pool or in the whole store
C3_Witness ==
    /\ Answered("quiz")
    /\ response.question # <<>>
    /\ Len(request.prev) >= 2
    /\ \E i \in Ids(store) :
         /\ i + 1 \in Ids(store)
         /\ {i, i + 1} \subseteq Range(request.prev)

\* C4: a quiz answers success true with an empty question exactly when every
\* question of the resolved pool is in previous_questions; a client that
\* starts from the empty list and appends each id it receives gets each of
\* the N pool questions once and the empty question on call N + 1.
C4_QuizExhaustsPool ==
    /\ (Answered("quiz") /\ request.shape = "full")
         => /\ response.status = 200
            /\ response.success = "true"
            /\ (response.question = <<>>)
                 <=> (Ids(ResolvedPool(request.cat)) \subseteq Range(request.prev))
    /\ LET N == Cardinality(ResolvedPool(sessCat))
       IN  /\ Len(sessPrev) = Min(sessCalls, N)
           /\ Cardinality(Range(sessPrev)) = Len(sessPrev)
           /\ Range(sessPrev) \subseteq Ids(ResolvedPool(sessCat))
           /\ request.client => ((response.question = <<>>) <=> (sessCalls > N))

\* the client played a pool of three or more questions to its end and got
\* the empty question on the next call
C4_Witness ==
    /\ request.client
    /\ Len(sessPrev) >= 3
    /\ sessCalls = Len(sessPrev) + 1
    /\ response.status = 200
    /\ response.question = <<>>

\* C5: a quiz request without a body, without previous_questions or without
\* quiz_category (or its id) is answered 400, success false, "Bad request",
\* and selects no question; a request with both fields is never answered 400.
C5_QuizBadRequest ==
    Answered("quiz")
        => /\ (request.shape # "full") => response = bad_req
           /\ (request.shape = "full") => response.status # 400

\* a quiz request whose quiz_category lacks its id was answered 400
C5_Witness ==
    /\ Answered("quiz")
    /\ request.shape = "nocatid"
    /\ response.status = 400
    /\ response.question = <<>>

\* the records at the 1-based positions (n-1)*10+1 .. min(n*10, length) of
\* a list of records
PageOf(records, n) ==
    [i \in 1..Max(0, Min(n * 10, Len(records)) - (n - 1) * 10)
        |-> records[(n - 1) * 10 + i]]

\* the lists pagination is given: the store in each ORDER BY of the handlers
Selections ==
    {OrderByCategoryId(store), OrderById(store), OrderByDifficulty(store)}

\* C6: for page n >= 1 pagination returns the records at the positions
\* (n-1)*10+1 .. min(n*10, length) of its list, in order and at most 10, and
\* the pages 1, 2, ... put end to end are the list.
C6_PaginationSlices ==
    /\ \A selection \in Selections :
         LET records == MapFormat(selection)
             last    == (Len(records) \div 10) + 2
         IN  /\ \A n \in 1..last :
                  /\ pagination(<<n>>, selection) = PageOf(records, n)
                  /\ Len(pagination(<<n>>, selection)) <= 10
             /\ Flatten([n \in 1..last |-> pagination(<<n>>, selection)]) = records
    /\ (Answered("get_questions") /\ PageArg(request.page) >= 1)
         => LET page == PageOf(MapFormat(OrderByCategoryId(store)),
                               PageArg(request.page))
            IN  IF page = <<>> THEN response.status = 404
                ELSE response.status = 200 /\ response.questions = page

\* the third page of a store of more than 20 questions was listed: a last,
\* partly filled page
C6_Witness ==
    /\ Answered("get_questions")
    /\ request.page = <<3>>
    /\ response.status = 200
    /\ Len(response.questions) \in 1..9
    /\ response.questions[1] = Format(OrderByCategoryId(store)[21])

\* C7: for a page number out of range (beyond the last page, or below 1)
\* pagination yields the empty slice and GET /questions answers 404,
\* success false, error 404, "Resource not found".
C7_OutOfRangeIs404 ==
    (Answered("get_questions")
       /\ \/ PageArg(request.page) < 1
          \/ (PageArg(request.page) - 1) * 10 >= Cardinality(store))
        => /\ pagination(request.page, OrderByCategoryId(store)) = <<>>
           /\ response = not_fond

\* C8: a create whose answer is the empty string, the other fields
\* populated, is answered success false, error 422, "Unprocessable", and no
\* question is added.
C8_EmptyAnswerRejected ==
    /\ (Answered("create_question") /\ request.shape = "full"
          /\ request.body.answer = "" /\ request.body.question # <<>>)
         => /\ response.success = "false"
            /\ response.error = 422
            /\ response.message = "Unprocessable"
    /\ \A q \in store : q.answer # ""

C9_UniqueIds == Cardinality(Ids(store)) = Cardinality(store)

C9_CreateStep ==
    (Handles("create_question") /\ response'.status = 200)
        => /\ response'.created \notin createdIds
           /\ response'.created \notin everIds
           /\ store \subseteq store'
           /\ store' \ store \in {{q} : q \in store'}
           /\ \A q \in store' \ store : q.id = response'.created
           /\ response'.total_questions = Cardinality(store) + 1

C9_IdsKept == \A q \in store' : q \in store \/ q.id \notin everIds

\* C9: a successful create answers a created id that no earlier create
\* answered and no question ever had, adds exactly one question and reports
\* the previous total + 1; no two stored questions share an id, and no stored
\* question's id changes.
C9_CreatedIdIsNew ==
    [][C9_CreateStep /\ C9_IdsKept]_vars /\ []C9_UniqueIds

\* a create was answered 200 after another create and a delete
C9_Witness ==
    /\ Answered("create_question")
    /\ response.status = 200
    /\ Cardinality(createdIds) >= 2
    /\ deletedIds # {}

\* text contains term, case ignored
Contains(text, term) ==
    \E k \in 0..(Len(text) - Len(term)) :
        \A j \in 1..Len(term) : Lower(text[k + j]) = Lower(term[j])

\* C10: a search answers 404 when no question text contains the term, case
\* ignored; otherwise 200 with questions = all the matching questions,
\* whatever the page, and total_questions = their number.
C10_SearchBySubstring ==
    (Answered("search_questions") /\ request.shape = "full")
        => LET matches == {q \in store : Contains(q.question, request.term)}
           IN  IF matches = {} THEN response.status = 404
               ELSE /\ response.status = 200
                    /\ Range(response.questions) = {Format(q) : q \in matches}
                    /\ Len(response.questions) = Cardinality(matches)
                    /\ response.total_questions = Cardinality(matches)

====
